---- MODULE Spec2Model ----
(***************************************************************************)
(* Model of examples/rust-worker/rust/src/main.rs: a line-delimited        *)
(* JSON-RPC 2.0 worker.  main() writes a startup notification, then reads  *)
(* stdin line by line; every line is deserialized into a JsonRpcRequest    *)
(* and passed to handle_request, which writes responses and log            *)
(* notifications to stdout.                                                *)
(*                                                                         *)
(* i64/u64 arithmetic is modelled at a reduced width of I64Bits bits       *)
(* (two's complement), since the model checker has no 64-bit integers.     *)
(* a + b and a * b on Rust integers panic on overflow when the build       *)
(* has overflow checks (the dev profile) and wrap otherwise (the release   *)
(* profile); the variable overflowChecks is the profile of the build.      *)
(* stdout is assumed to accept every write.                                *)
(***************************************************************************)
EXTENDS Integers, Sequences, FiniteSets, TLC

\* ---------------------------------------------------------------- bounds
MaxLines == 2
I64Bits == 6
MaxPrimeArg == 50

I64Max == 2 ^ (I64Bits - 1) - 1
I64Min == 0 - 2 ^ (I64Bits - 1)
U64Max == 2 ^ I64Bits - 1

\* ------------------------------------------------- serde_json::Value
Null == [t |-> "null"]
JBool(b) == [t |-> "bool", b |-> b]
JInt(i) == [t |-> "int", i |-> i]
JFloat == [t |-> "float"]
JStr(s) == [t |-> "str", s |-> s]
JArr(a) == [t |-> "arr", a |-> a]
JObj(o) == [t |-> "obj", o |-> o]

\* Value["key"]: Null unless the value is an object that has the key.
Index(v, key) ==
  IF v.t = "obj" /\ key \in DOMAIN v.o THEN v.o[key] ELSE Null

\* Value::as_i64 / as_u64 / as_str / as_array, as Option values.
None == [some |-> FALSE]
Some(v) == [some |-> TRUE, v |-> v]
UnwrapOr(opt, d) == IF opt.some THEN opt.v ELSE d

as_i64(v) == IF v.t = "int" /\ v.i <= I64Max THEN Some(v.i) ELSE None
as_u64(v) == IF v.t = "int" /\ v.i >= 0 THEN Some(v.i) ELSE None
as_str(v) == IF v.t = "str" THEN Some(v.s) ELSE None
as_array(v) == IF v.t = "arr" THEN Some(v.a) ELSE None

\* Message texts: a string literal, or format!("prefix{}", arg).
Literal(text) == <<text>>
Format(prefix, arg) == <<prefix, arg>>

\* --------------------------------------------------- inbound decoding
\* serde_json::from_str::<JsonRpcRequest>(&line).  A line is malformed JSON
\* ("garbage"), a JSON scalar ("scalar"), or a JSON object with fields f.
\* jsonrpc and method are required Strings, id is Option<Value> (absent or
\* null gives None), params is a Value with #[serde(default)].
DecodeErr(e) == [ok |-> FALSE, e |-> e]
DecodeOk(r) == [ok |-> TRUE, request |-> r]

JsonRpcRequest_NullIsSome(f) ==
  [jsonrpc |-> f.jsonrpc.s,
   id |-> IF "id" \in DOMAIN f THEN Some(f.id) ELSE None,
   method |-> f.method.s,
   params |-> IF "params" \in DOMAIN f THEN f.params ELSE Null]

JsonRpcRequest(f) ==
  [jsonrpc |-> f.jsonrpc.s,
   id |-> IF "id" \in DOMAIN f /\ f.id # Null THEN Some(f.id) ELSE None,
   method |-> f.method.s,
   params |-> IF "params" \in DOMAIN f THEN f.params ELSE Null]

from_str_StrictVersion(line) ==
  IF line.k = "garbage" THEN DecodeErr("expected value")
  ELSE IF line.k = "scalar" THEN DecodeErr("invalid type")
  ELSE IF "jsonrpc" \in DOMAIN line.f /\ line.f.jsonrpc.t # "str"
         THEN DecodeErr("invalid type")
  ELSE IF "method" \in DOMAIN line.f /\ line.f.method.t # "str"
         THEN DecodeErr("invalid type")
  ELSE IF "jsonrpc" \notin DOMAIN line.f THEN DecodeErr("missing field jsonrpc")
  ELSE IF "method" \notin DOMAIN line.f THEN DecodeErr("missing field method")
  ELSE IF line.f.jsonrpc.s # "2.0" THEN DecodeErr("invalid value")
  ELSE DecodeOk(JsonRpcRequest(line.f))

from_str(line) ==
  IF line.k = "garbage" THEN DecodeErr("expected value")
  ELSE IF line.k = "scalar" THEN DecodeErr("invalid type")
  ELSE IF "jsonrpc" \in DOMAIN line.f /\ line.f.jsonrpc.t # "str"
         THEN DecodeErr("invalid type")
  ELSE IF "method" \in DOMAIN line.f /\ line.f.method.t # "str"
         THEN DecodeErr("invalid type")
  ELSE IF "jsonrpc" \notin DOMAIN line.f THEN DecodeErr("missing field jsonrpc")
  ELSE IF "method" \notin DOMAIN line.f THEN DecodeErr("missing field method")
  ELSE DecodeOk(JsonRpcRequest(line.f))

\* -------------------------------------------------- outbound messages
\* serde_json::json!({ "message": ... })
LogParams(message) == JObj([message |-> [t |-> "str", text |-> message]])

send_response(id, result) ==
  <<[jsonrpc |-> "2.0", id |-> id, result |-> result]>>

send_error_NullId(id, code, message) ==
  <<[jsonrpc |-> "2.0", id |-> Null, error |-> [code |-> code, message |-> message]]>>

send_error(id, code, message) ==
  <<[jsonrpc |-> "2.0", id |-> id, error |-> [code |-> code, message |-> message]]>>

send_notification_WithId(method, params) ==
  <<[jsonrpc |-> "2.0", id |-> Null, method |-> method, params |-> params]>>

send_notification(method, params) ==
  <<[jsonrpc |-> "2.0", method |-> method, params |-> params]>>

\* ------------------------------------------------ integer arithmetic
\* The outcome of an integer expression: a value, or a panic.
Val(v) == [panic |-> FALSE, v |-> v]
Panic == [panic |-> TRUE]

WrapI64(x) == ((x - I64Min) % (2 ^ I64Bits)) + I64Min
WrapU64(x) == x % (2 ^ I64Bits)

\* a + b and a * b on i64; + on u64.
AddI64(a, b, checks) ==
  IF a + b >= I64Min /\ a + b <= I64Max THEN Val(a + b)
  ELSE IF checks THEN Panic ELSE Val(WrapI64(a + b))

MulI64(a, b, checks) ==
  IF a * b >= I64Min /\ a * b <= I64Max THEN Val(a * b)
  ELSE IF checks THEN Panic ELSE Val(WrapI64(a * b))

AddU64(a, b, checks) ==
  IF a + b <= U64Max THEN Val(a + b)
  ELSE IF checks THEN Panic ELSE Val(WrapU64(a + b))

RECURSIVE fibonacci(_, _)
fibonacci(n, checks) ==
  IF n = 0 THEN Val(0)
  ELSE IF n = 1 THEN Val(1)
  ELSE LET x == fibonacci(n - 1, checks)
           y == fibonacci(n - 2, checks)
       IN IF x.panic \/ y.panic THEN Panic ELSE AddU64(x.v, y.v, checks)

\* floor(sqrt(n)), the value of (n as f64).sqrt() as u64 for n < 2^52.
RECURSIVE SqrtFrom(_, _)
SqrtFrom(n, r) == IF (r + 1) * (r + 1) > n THEN r ELSE SqrtFrom(n, r + 1)

RECURSIVE NoOddDivisor_Exclusive(_, _, _)
NoOddDivisor_Exclusive(n, i, sqrt) ==
  IF i >= sqrt THEN TRUE
  ELSE IF n % i = 0 THEN FALSE
  ELSE NoOddDivisor_Exclusive(n, i + 2, sqrt)

\* for i in (3..=sqrt).step_by(2)
RECURSIVE NoOddDivisor(_, _, _)
NoOddDivisor(n, i, sqrt) ==
  IF i > sqrt THEN TRUE
  ELSE IF n % i = 0 THEN FALSE
  ELSE NoOddDivisor(n, i + 2, sqrt)

is_prime(n) ==
  IF n < 2 THEN FALSE
  ELSE IF n = 2 THEN TRUE
  ELSE IF n % 2 = 0 THEN FALSE
  ELSE NoOddDivisor(n, 3, SqrtFrom(n, 0))

\* arr.iter().filter_map(|v| v.as_i64()).sum::<i64>()
RECURSIVE SumI64(_, _, _)
SumI64(arr, acc, checks) ==
  IF arr = <<>> THEN Val(acc)
  ELSE LET x == as_i64(Head(arr))
           s == IF x.some THEN AddI64(acc, x.v, checks) ELSE Val(acc)
       IN IF s.panic THEN Panic ELSE SumI64(Tail(arr), s.v, checks)

\* ----------------------------------------------------- handle_request
Registry == {"add", "multiply", "fibonacci", "is_prime", "sum_array", "echo"}

\* The match on request.method: the result value of a registry method, or a
\* panic of its arithmetic.
MethodResult(method, params, checks) ==
  IF method = "add" THEN
    LET a == UnwrapOr(as_i64(Index(params, "a")), 0)
        b == UnwrapOr(as_i64(Index(params, "b")), 0)
        r == AddI64(a, b, checks)
    IN IF r.panic THEN Panic ELSE Val(JInt(r.v))
  ELSE IF method = "multiply" THEN
    LET a == UnwrapOr(as_i64(Index(params, "a")), 0)
        b == UnwrapOr(as_i64(Index(params, "b")), 0)
        r == MulI64(a, b, checks)
    IN IF r.panic THEN Panic ELSE Val(JInt(r.v))
  ELSE IF method = "fibonacci" THEN
    LET n == UnwrapOr(as_u64(Index(params, "n")), 0)
        r == fibonacci(n, checks)
    IN IF r.panic THEN Panic ELSE Val(JInt(r.v))
  ELSE IF method = "is_prime" THEN
    LET n == UnwrapOr(as_u64(Index(params, "n")), 0)
    IN Val(JBool(is_prime(n)))
  ELSE IF method = "sum_array" THEN
    LET arr == as_array(Index(params, "numbers"))
        r == IF arr.some THEN SumI64(arr.v, 0, checks) ELSE Val(0)
    IN IF r.panic THEN Panic ELSE Val(JInt(r.v))
  ELSE \* "echo"
    Val(JStr(UnwrapOr(as_str(Index(params, "message")), "")))

\* What one call of handle_request does: the lines it writes, in order, and
\* how it ends: "return", "exit" (std::process::exit(0)) or "panic".
Outcome(outs, end) == [outs |-> outs, end |-> end]

\* The None arm of `match request.id`: the message is a notification.
NotificationBranch_KeepsRunning(request) ==
  IF request.method = "shutdown"
    THEN Outcome(send_notification("log", LogParams(Literal("Shutting down..."))),
                 "return")
    ELSE Outcome(send_notification("log",
                   LogParams(Format("Unknown notification: ", request.method))),
                 "return")

NotificationBranch_Silent(request) ==
  IF request.method = "shutdown"
    THEN Outcome(send_notification("log", LogParams(Literal("Shutting down..."))),
                 "exit")
    ELSE Outcome(<<>>, "return")

NotificationBranch(request) ==
  IF request.method = "shutdown"
    THEN Outcome(send_notification("log", LogParams(Literal("Shutting down..."))),
                 "exit")
    ELSE Outcome(send_notification("log",
                   LogParams(Format("Unknown notification: ", request.method))),
                 "return")

handle_request_ShutdownAny(request, checks) ==
  IF request.method = "shutdown" \/ ~request.id.some THEN NotificationBranch(request)
  ELSE IF request.method \notin Registry THEN
    Outcome(send_error(request.id.v, -32601,
                       Format("Method not found: ", request.method)), "return")
  ELSE
    LET result == MethodResult(request.method, request.params, checks)
    IN IF result.panic THEN Outcome(<<>>, "panic")
       ELSE Outcome(send_response(request.id.v, result.v)
                      \o send_notification("log",
                           LogParams(Format("Processed ", request.method))),
                    "return")

handle_request(request, checks) ==
  IF ~request.id.some THEN NotificationBranch(request)
  ELSE IF request.method \notin Registry THEN
    Outcome(send_error(request.id.v, -32601,
                       Format("Method not found: ", request.method)), "return")
  ELSE
    LET result == MethodResult(request.method, request.params, checks)
    IN IF result.panic THEN Outcome(<<>>, "panic")
       ELSE Outcome(send_response(request.id.v, result.v)
                      \o send_notification("log",
                           LogParams(Format("Processed ", request.method))),
                    "return")

\* ------------------------------------------------------- input lines
Object(f) == [k |-> "object", f |-> f]
Call(id, method, params) ==
  Object([jsonrpc |-> JStr("2.0"), id |-> id, method |-> JStr(method), params |-> params])
Notify(method) == Object([jsonrpc |-> JStr("2.0"), method |-> JStr(method)])

UndecodableLines ==
  { [k |-> "garbage"], [k |-> "scalar"],
    Object([jsonrpc |-> JStr("2.0"), id |-> JInt(1)]),
    Object([jsonrpc |-> JStr("2.0"), id |-> JInt(1), method |-> JInt(7)]),
    Object([id |-> JInt(1), method |-> JStr("add"),
            params |-> JObj([a |-> JInt(1), b |-> JInt(2)])]),
    Object([method |-> JStr("shutdown")]),
    Object([jsonrpc |-> JInt(2), id |-> JInt(1), method |-> JStr("add")]) }

NotificationLines ==
  { Notify("shutdown"), Notify("foo"),
    Object([jsonrpc |-> JStr("2.0"), id |-> Null, method |-> JStr("shutdown")]),
    Object([jsonrpc |-> JStr("2.0"), method |-> JStr("add"),
            params |-> JObj([a |-> JInt(1), b |-> JInt(2)])]),
    Call(Null, "add", JObj([a |-> JInt(1), b |-> JInt(2)])),
    Object([jsonrpc |-> JStr("1.0"), method |-> JStr("shutdown")]) }

UnknownMethodLines ==
  { Call(JInt(1), "foo", Null), Call(JInt(2), "foo", JObj([a |-> JInt(1)])),
    Call(JInt(1), "shutdown", Null) }

RegistryLines ==
  { Call(JInt(1), "add", JObj([a |-> JInt(1), b |-> JInt(2)])),
    Call(JInt(2), "add", JObj([a |-> JInt(I64Max), b |-> JInt(1)])),
    Call(JInt(1), "add", JObj([a |-> JStr("x"), b |-> JInt(2)])),
    Object([jsonrpc |-> JStr("2.0"), id |-> JInt(1), method |-> JStr("add")]),
    Object([jsonrpc |-> JStr("1.0"), id |-> JInt(2), method |-> JStr("add"),
            params |-> JObj([a |-> JInt(1), b |-> JInt(2)])]),
    Call(JInt(1), "multiply", JObj([a |-> JInt(2), b |-> JInt(3)])),
    Call(JInt(2), "multiply", JObj([a |-> JInt(I64Max), b |-> JInt(2)])),
    Call(JInt(1), "fibonacci", JObj([n |-> JInt(6)])),
    Call(JInt(2), "fibonacci", JObj([n |-> JInt(-1)])),
    Call(JInt(1), "is_prime", JObj([n |-> JInt(7)])),
    Call(JInt(2), "is_prime", JObj([n |-> JInt(9)])),
    Call(JInt(1), "sum_array",
         JObj([numbers |-> JArr(<<JInt(1), JInt(2), JStr("x"), JInt(3)>>)])),
    Call(JInt(2), "sum_array", JObj([numbers |-> JArr(<<JInt(I64Max), JInt(1)>>)])),
    Call(JInt(1), "sum_array", JObj([a |-> JInt(1)])),
    Call(JInt(1), "echo", JObj([message |-> JStr("hi")])),
    Call(JInt(2), "echo", JObj([message |-> JInt(5)])) }

Lines == UndecodableLines \cup NotificationLines \cup UnknownMethodLines \cup RegistryLines

\* An item of reader.lines(): Ok(line), or Err(_) for a failed read.
ReadErr == [k |-> "ioerr"]
Items == Lines \cup {ReadErr}

\* ------------------------------------------------------------- state
VARIABLES
  stdin,           \* the items reader.lines() yields, in order, before end of stream
  overflowChecks,  \* whether the build panics on integer overflow
  pos,             \* number of items taken from stdin so far
  pc,              \* position of main: "start", "read", "handle", "done"
  line,            \* the line read and not yet handled (pc = "handle")
  out,             \* the lines written to stdout so far
  status           \* "running", or how the process ended

vars == <<stdin, overflowChecks, pos, pc, line, out, status>>

NoLine == [k |-> "none"]

Init ==
  /\ \E n \in 0..MaxLines : stdin \in [1..n -> Items]
  /\ overflowChecks \in BOOLEAN
  /\ pos = 0
  /\ pc = "start"
  /\ line = NoLine
  /\ out = <<>>
  /\ status = "running"

Startup_Silent ==
  /\ pc = "start"
  /\ out' = out
  /\ pc' = "read"
  /\ UNCHANGED <<stdin, overflowChecks, pos, line, status>>

\* main: the startup notification, sent before the loop.
Startup ==
  /\ pc = "start"
  /\ out' = out \o send_notification("log", LogParams(Literal("Rust worker started")))
  /\ pc' = "read"
  /\ UNCHANGED <<stdin, overflowChecks, pos, line, status>>

ReadLine_Skips ==
  /\ pc = "read"
  /\ pos < Len(stdin)
  /\ stdin[pos + 1] # ReadErr
  /\ LET k == IF pos + 2 <= Len(stdin) /\ stdin[pos + 2] # ReadErr
               THEN pos + 2 ELSE pos + 1
     IN line' = stdin[k] /\ pos' = k
  /\ pc' = "handle"
  /\ UNCHANGED <<stdin, overflowChecks, out, status>>

\* for line in reader.lines(): the next item is Ok(line).
ReadLine ==
  /\ pc = "read"
  /\ pos < Len(stdin)
  /\ stdin[pos + 1] # ReadErr
  /\ line' = stdin[pos + 1]
  /\ pos' = pos + 1
  /\ pc' = "handle"
  /\ UNCHANGED <<stdin, overflowChecks, out, status>>

ReadFails_Continues ==
  /\ pc = "read"
  /\ pos < Len(stdin)
  /\ stdin[pos + 1] = ReadErr
  /\ pos' = pos + 1
  /\ UNCHANGED <<stdin, overflowChecks, pc, line, out, status>>

\* The next item is Err(_): break, and main returns.
ReadFails ==
  /\ pc = "read"
  /\ pos < Len(stdin)
  /\ stdin[pos + 1] = ReadErr
  /\ pos' = pos + 1
  /\ pc' = "done"
  /\ status' = "readerr"
  /\ UNCHANGED <<stdin, overflowChecks, line, out>>

EndOfInput_Hangs ==
  /\ pc = "read"
  /\ pos = Len(stdin)
  /\ FALSE
  /\ UNCHANGED vars

\* reader.lines() is exhausted: the loop ends and main returns.
EndOfInput ==
  /\ pc = "read"
  /\ pos = Len(stdin)
  /\ pc' = "done"
  /\ status' = "eof"
  /\ UNCHANGED <<stdin, overflowChecks, pos, line, out>>

ParseError_Responds ==
  /\ pc = "handle"
  /\ ~from_str(line).ok
  /\ out' = out \o send_error(Null, -32700, Format("Parse error: ", from_str(line).e))
  /\ pc' = "read"
  /\ line' = NoLine
  /\ UNCHANGED <<stdin, overflowChecks, pos, status>>

\* Err(e) of from_str: one log notification, then the next iteration.
ParseError ==
  /\ pc = "handle"
  /\ ~from_str(line).ok
  /\ out' = out \o send_notification("log",
                     LogParams(Format("Parse error: ", from_str(line).e)))
  /\ pc' = "read"
  /\ line' = NoLine
  /\ UNCHANGED <<stdin, overflowChecks, pos, status>>

HandleRequest_Remembers ==
  /\ pc = "handle"
  /\ from_str(line).ok
  /\ LET o == handle_request(from_str(line).request, overflowChecks)
         seen == \E i \in 1..(pos - 1) : stdin[i] = line
     IN /\ out' = IF seen /\ o.end = "return" THEN out ELSE out \o o.outs
        /\ pc' = IF o.end = "return" THEN "read" ELSE "done"
        /\ status' = IF o.end = "return" THEN status
                     ELSE IF o.end = "exit" THEN "shutdown" ELSE "panic"
  /\ line' = NoLine
  /\ UNCHANGED <<stdin, overflowChecks, pos>>

\* Ok(request) => handle_request(request).
HandleRequest ==
  /\ pc = "handle"
  /\ from_str(line).ok
  /\ LET o == handle_request(from_str(line).request, overflowChecks)
     IN /\ out' = out \o o.outs
        /\ pc' = IF o.end = "return" THEN "read" ELSE "done"
        /\ status' = IF o.end = "return" THEN status
                     ELSE IF o.end = "exit" THEN "shutdown" ELSE "panic"
  /\ line' = NoLine
  /\ UNCHANGED <<stdin, overflowChecks, pos>>

Next ==
  \/ Startup
  \/ ReadLine
  \/ ReadFails
  \/ EndOfInput
  \/ ParseError
  \/ HandleRequest

Spec == Init /\ [][Next]_vars

\* The worker run on a single is_prime request, for every n up to MaxPrimeArg.
PrimeLines ==
  { Call(JInt(1), "is_prime", JObj([n |-> JInt(n)])) : n \in 0..MaxPrimeArg }

InitPrime ==
  /\ stdin \in { <<l>> : l \in PrimeLines }
  /\ overflowChecks \in BOOLEAN
  /\ pos = 0
  /\ pc = "start"
  /\ line = NoLine
  /\ out = <<>>
  /\ status = "running"

NextPrime ==
  \/ Startup
  \/ ReadLine
  \/ HandleRequest
  \/ EndOfInput

SpecPrime == InitPrime /\ [][NextPrime]_vars

\* The worker on a finite, closed stdin.  main is a single thread whose reads
\* return (the stream is finite and ends) and whose handler calls return or
\* abort, so it keeps taking its next step while it has one.
LiveItems ==
  { Notify("shutdown"), Notify("foo"), [k |-> "garbage"],
    Call(JInt(1), "foo", Null),
    Call(JInt(1), "add", JObj([a |-> JInt(1), b |-> JInt(2)])),
    Call(JInt(2), "add", JObj([a |-> JInt(I64Max), b |-> JInt(1)])),
    ReadErr }

InitLive ==
  /\ \E n \in 0..MaxLines : stdin \in [1..n -> LiveItems]
  /\ overflowChecks \in BOOLEAN
  /\ pos = 0
  /\ pc = "start"
  /\ line = NoLine
  /\ out = <<>>
  /\ status = "running"

LiveSpec == InitLive /\ [][Next]_vars /\ WF_vars(Next)

TypeOK ==
  /\ pos \in 0..Len(stdin)
  /\ pc \in {"start", "read", "handle", "done"}
  /\ status \in {"running", "eof", "readerr", "shutdown", "panic"}
  /\ (pc = "done") = (status # "running")

\* ------------------------------------------------ reading the output
IsSuccess(m) == "result" \in DOMAIN m
IsError(m) == "error" \in DOMAIN m
IsResponse(m) == IsSuccess(m) \/ IsError(m)
IsNotification(m) == "method" \in DOMAIN m
IsLog(m, text) ==
  /\ IsNotification(m)
  /\ m.method = "log"
  /\ m.params.o.message.text = text
IsParseErrorLog(m) ==
  /\ IsNotification(m)
  /\ m.method = "log"
  /\ Len(m.params.o.message.text) = 2
  /\ m.params.o.message.text[1] = "Parse error: "

\* The lines a step writes, provided it only appends to stdout.
Appends == Len(out') >= Len(out) /\ SubSeq(out', 1, Len(out)) = out
Written == SubSeq(out', Len(out) + 1, Len(out'))

\* Classification of a line by what it decodes to.
Decodes(l) == from_str(l).ok
Req(l) == from_str(l).request
IsRequest(l) == Decodes(l) /\ Req(l).id.some
IsNotify(l) == Decodes(l) /\ ~Req(l).id.some
IsRegistryRequest(l) == IsRequest(l) /\ Req(l).method \in Registry
IsUnknownRequest(l) == IsRequest(l) /\ Req(l).method \notin Registry
IsShutdown(l) == IsNotify(l) /\ Req(l).method = "shutdown"
IsUnknownNotify(l) == IsNotify(l) /\ Req(l).method # "shutdown"

\* Number of lines whose turn is over.
Handled ==
  IF pc = "handle" \/ status = "readerr" THEN pos - 1 ELSE pos
\* The line of the last finished turn.
AfterTurn == pc \in {"read", "done"} /\ status # "readerr" /\ status # "eof" /\ pos >= 1
LastLine == stdin[pos]
LastOut == out[Len(out)]

\* ------------------------------------------------------------ claims

\* C1: the turn of a request with an id and a registry method writes exactly
\* two lines: a success response with the request's id, then the log
\* notification "Processed {method}"; it writes no error response.
C1_RegistryRequestAnswered ==
  [][(pc = "handle" /\ IsRegistryRequest(line)) =>
       /\ Appends
       /\ Len(Written) = 2
       /\ IsSuccess(Written[1])
       /\ Written[1].id = Req(line).id.v
       /\ IsLog(Written[2], Format("Processed ", Req(line).method))]_vars

\* C2: the turn of a request with an id and a method outside the registry
\* writes exactly one line, the error response with code -32601, message
\* "Method not found: {method}" and the request's id, and the loop goes on
\* to read the next line.
C2_UnknownMethodError ==
  [][(pc = "handle" /\ IsUnknownRequest(line)) =>
       /\ Appends
       /\ Len(Written) = 1
       /\ IsError(Written[1])
       /\ ~IsSuccess(Written[1])
       /\ Written[1].id = Req(line).id.v
       /\ Written[1].error.code = -32601
       /\ Written[1].error.message = Format("Method not found: ", Req(line).method)
       /\ pc' = "read"
       /\ status' = "running"]_vars

C2_Witness ==
  /\ AfterTurn
  /\ IsUnknownRequest(LastLine)
  /\ pc = "read"
  /\ IsError(LastOut)
  /\ LastOut.error.code = -32601

\* C3: the turn of a shutdown notification writes exactly one line, the log
\* notification "Shutting down...", and ends the process with success
\* status; afterwards nothing more is read or written, whatever is still
\* pending on stdin.
C3_ShutdownStops ==
  [][/\ (pc = "handle" /\ IsShutdown(line)) =>
          /\ Appends
          /\ Len(Written) = 1
          /\ IsLog(Written[1], Literal("Shutting down..."))
          /\ pc' = "done"
          /\ status' = "shutdown"
     /\ (status = "shutdown" => pos' = pos /\ out' = out)
     /\ (pc = "read" /\ pos >= 1 /\ IsShutdown(stdin[pos]) => pos' = pos)]_vars

C3_Witness ==
  /\ status = "shutdown"
  /\ pos < Len(stdin)
  /\ IsShutdown(LastLine)
  /\ IsLog(LastOut, Literal("Shutting down..."))

\* C4: the process has ended only if it handled a shutdown notification or
\* its input ended; the turn of any other line (a parse error, an unknown
\* notification, an unknown request method, a request to a registry method)
\* leaves the process running and about to read the next line.
C4_OnlyShutdownOrInputEndTerminates ==
  /\ status \in {"running", "shutdown", "eof", "readerr"}
  /\ status = "shutdown" => IsShutdown(stdin[pos])
  /\ status = "eof" => pos = Len(stdin)
  /\ (pc = "done" /\ pos >= 1 /\ status # "eof" /\ status # "readerr")
       => IsShutdown(stdin[pos])

\* C5: the turn of a line that fails to decode writes exactly one line, a
\* log notification whose message describes the parse error, and the loop
\* goes on to read the next line.
C5_ParseErrorLogged ==
  [][(pc = "handle" /\ ~Decodes(line)) =>
       /\ Appends
       /\ Len(Written) = 1
       /\ IsParseErrorLog(Written[1])
       /\ ~IsResponse(Written[1])
       /\ Written[1].params.o.message.text[2] = from_str(line).e
       /\ pc' = "read"
       /\ status' = "running"]_vars

C5_Witness ==
  /\ AfterTurn
  /\ ~Decodes(LastLine)
  /\ pc = "read"
  /\ IsParseErrorLog(LastOut)
  /\ Len(out) = 2

\* C6: the turn of a notification (no id) whose method is not "shutdown",
\* registry method names included, writes exactly one line, the log
\* notification "Unknown notification: {method}"; it writes no response and
\* the process keeps running.
C6_UnknownNotificationLogged ==
  [][(pc = "handle" /\ IsUnknownNotify(line)) =>
       /\ Appends
       /\ Len(Written) = 1
       /\ IsLog(Written[1], Format("Unknown notification: ", Req(line).method))
       /\ ~IsResponse(Written[1])
       /\ pc' = "read"
       /\ status' = "running"]_vars

C6_Witness ==
  /\ AfterTurn
  /\ IsUnknownNotify(LastLine)
  /\ Req(LastLine).method \in Registry
  /\ pc = "read"
  /\ IsLog(LastOut, Format("Unknown notification: ", "add"))

\* C7 (as stated): a line that is a JSON object with a string method field
\* is decoded and dispatched, never rejected as a decode error, whether its
\* jsonrpc field is "2.0", something else, or missing.
HasStringMethod(l) ==
  l.k = "object" /\ "method" \in DOMAIN l.f /\ l.f.method.t = "str"
HasStringVersion(l) ==
  l.k = "object" /\ "jsonrpc" \in DOMAIN l.f /\ l.f.jsonrpc.t = "str"
NoParseErrorWritten == \A i \in 1..Len(Written) : ~IsParseErrorLog(Written[i])

C7_VersionLenient ==
  [][(pc = "handle" /\ HasStringMethod(line)) =>
       Appends /\ NoParseErrorWritten]_vars

\* C7 (amended): a line that is a JSON object with a string method field is
\* decoded and dispatched exactly when its jsonrpc field is present and is a
\* string, whatever the string; when jsonrpc is missing or is not a string
\* the turn is a decode error (one "Parse error" log notification).
C7_VersionMustBeString ==
  [][(pc = "handle" /\ HasStringMethod(line)) =>
       /\ Appends
       /\ HasStringVersion(line) => NoParseErrorWritten
       /\ ~HasStringVersion(line) =>
            Len(Written) = 1 /\ IsParseErrorLog(Written[1]) /\ pc' = "read"]_vars

C7_Witness ==
  /\ pc = "read" /\ pos = 2 /\ Len(out) = 4
  /\ HasStringMethod(stdin[1]) /\ "jsonrpc" \notin DOMAIN stdin[1].f
  /\ IsParseErrorLog(out[2])
  /\ HasStringMethod(stdin[2]) /\ stdin[2].f.jsonrpc = JStr("1.0")
  /\ IsSuccess(out[3])
  /\ IsLog(out[4], Format("Processed ", "add"))

\* C8: at every turn boundary the responses written so far (success and
\* error) are, in order, the answers to the handled messages that carried an
\* id: as many responses as such messages, the k-th response with the id of
\* the k-th such message.
RECURSIVE ResponseIds(_)
ResponseIds(o) ==
  IF o = <<>> THEN <<>>
  ELSE IF IsResponse(Head(o)) THEN <<Head(o).id>> \o ResponseIds(Tail(o))
  ELSE ResponseIds(Tail(o))

RECURSIVE RequestIds(_)
RequestIds(n) ==
  IF n = 0 THEN <<>>
  ELSE IF IsRequest(stdin[n]) THEN Append(RequestIds(n - 1), Req(stdin[n]).id.v)
  ELSE RequestIds(n - 1)

C8_ResponsesCorrelated ==
  pc \in {"read", "done"} => ResponseIds(out) = RequestIds(Handled)

\* C9: processing is strictly sequential: reading takes the next line in
\* input order and writes nothing, output is only ever appended, and only by
\* the startup or by the turn in progress; so stdout is the startup
\* notification followed by the outputs of the finished turns in input order.
TurnOutput(l) ==
  IF Decodes(l) THEN handle_request(Req(l), overflowChecks).outs
  ELSE send_notification("log", LogParams(Format("Parse error: ", from_str(l).e)))

RECURSIVE TurnsOutput(_)
TurnsOutput(n) ==
  IF n = 0 THEN <<>> ELSE TurnsOutput(n - 1) \o TurnOutput(stdin[n])

C9_Sequential ==
  /\ [](pc # "start" =>
          /\ Len(out) >= 1
          /\ Tail(out) = TurnsOutput(Handled))
  /\ [][/\ Appends
        /\ pos' # pos => pc = "read" /\ pos' = pos + 1 /\ out' = out
        /\ pc' = "handle" => line' = stdin[pos']
        /\ out' # out => pc \in {"start", "handle"}]_vars

C9_Witness ==
  /\ pc = "read" /\ pos = 2 /\ Len(out) = 4
  /\ IsRegistryRequest(stdin[1]) /\ IsUnknownRequest(stdin[2])
  /\ IsSuccess(out[2]) /\ out[2].id = Req(stdin[1]).id.v
  /\ IsError(out[4]) /\ out[4].id = Req(stdin[2]).id.v

\* C10: exactly one startup log notification is written, before any input
\* is read; it is the first line of stdout in every execution and is never
\* written again.
IsStartupLog(m) == IsLog(m, Literal("Rust worker started"))

C10_StartupFirst ==
  /\ pc = "start" => pos = 0 /\ out = <<>>
  /\ pc # "start" =>
       /\ Len(out) >= 1
       /\ IsStartupLog(out[1])
       /\ \A i \in 2..Len(out) : ~IsStartupLog(out[i])

C10_Witness ==
  /\ pc = "done" /\ status = "eof" /\ pos = 2
  /\ Len(out) >= 3
  /\ IsStartupLog(out[1])

\* C11: every line ever written carries version "2.0" and has one of three
\* shapes: a notification (method "log", params, no id), a success response
\* (id and result, no error), an error response (id and error, no result).
WellFormed(m) ==
  /\ m.jsonrpc = "2.0"
  /\ \/ DOMAIN m = {"jsonrpc", "method", "params"} /\ m.method = "log"
     \/ DOMAIN m = {"jsonrpc", "id", "result"}
     \/ DOMAIN m = {"jsonrpc", "id", "error"}

C11_OutboundShapes == \A i \in 1..Len(out) : WellFormed(out[i])

C11_Witness ==
  /\ \E i \in 1..Len(out) : IsSuccess(out[i])
  /\ \E i \in 1..Len(out) : IsError(out[i])
  /\ \E i \in 2..Len(out) : IsNotification(out[i]) /\ ~IsResponse(out[i])

\* C12: a failed read stops the loop: the step writes nothing and ends main,
\* and afterwards nothing is written and no later line is taken, whatever
\* follows the failure on stdin.
NextReadFails == pc = "read" /\ pos < Len(stdin) /\ stdin[pos + 1] = ReadErr

C12_ReadErrorStops ==
  [][/\ NextReadFails => out' = out /\ pc' = "done" /\ status' = "readerr"
     /\ (pos >= 1 /\ stdin[pos] = ReadErr) => out' = out /\ pos' = pos]_vars

C12_Witness ==
  /\ status = "readerr" /\ pc = "done"
  /\ pos = 1 /\ Len(stdin) = 2 /\ stdin[2] \in RegistryLines
  /\ Len(out) = 1

C14_ArithmeticHandlersTotal ==
  [][(pc = "handle" /\ IsRequest(line)
        /\ Req(line).method \in {"add", "multiply", "sum_array"}) =>
       /\ Appends
       /\ Len(Written) >= 1
       /\ IsSuccess(Written[1])
       /\ status' = "running"
       /\ pc' = "read"]_vars

\* C15: the result of an is_prime request for n is the reference primality
\* of n: false for n < 2, true for 2, false for even n > 2, and for odd n > 2
\* true exactly when no odd d with 3 <= d <= floor(sqrt(n)) divides n; odd
\* perfect squares are reported non-prime.
FloorSqrt(n) == CHOOSE r \in 0..n : r * r <= n /\ (r + 1) * (r + 1) > n

PrimeAsClaimed(n) ==
  IF n < 2 THEN FALSE
  ELSE IF n = 2 THEN TRUE
  ELSE IF n % 2 = 0 THEN FALSE
  ELSE ~\E d \in 3..FloorSqrt(n) : d % 2 = 1 /\ n % d = 0

PrimeByDefinition(n) == n >= 2 /\ \A d \in 2..(n - 1) : n % d # 0

PrimeArg == stdin[1].f.params.o.n.i

C15_IsPrimeCorrect ==
  (pc \in {"read", "done"} /\ pos = 1) =>
    /\ Len(out) = 3
    /\ IsSuccess(out[2])
    /\ out[2].result = JBool(PrimeAsClaimed(PrimeArg))
    /\ out[2].result = JBool(PrimeByDefinition(PrimeArg))

C15_Witness ==
  /\ pc = "done" /\ pos = 1
  /\ PrimeArg = 49
  /\ out[2].result = JBool(FALSE)

\* C16: add answers a + b and multiply answers a * b, where a and b are the
\* integer values of params.a and params.b, each taken as 0 when it is
\* missing or not an integer; a defaulted field never gives an error.
IntOrZero(v) == IF v.t = "int" THEN v.i ELSE 0
ParamA(l) == IntOrZero(Index(Req(l).params, "a"))
ParamB(l) == IntOrZero(Index(Req(l).params, "b"))

C16_AddMultiplyResult ==
  [][(pc = "handle" /\ IsRequest(line) /\ Req(line).method \in {"add", "multiply"}) =>
       /\ Appends
       /\ Len(Written) = 2
       /\ IsSuccess(Written[1])
       /\ Written[1].result =
            JInt(IF Req(line).method = "add"
                   THEN ParamA(line) + ParamB(line)
                   ELSE ParamA(line) * ParamB(line))]_vars

\* C17: sum_array answers the sum of exactly the integer elements of
\* params.numbers, skipping every other element, and 0 when numbers is
\* absent, not an array or empty.
RECURSIVE IntegerSum(_)
IntegerSum(arr) ==
  IF arr = <<>> THEN 0 ELSE IntOrZero(Head(arr)) + IntegerSum(Tail(arr))

NumbersSum(l) ==
  LET numbers == Index(Req(l).params, "numbers")
  IN IF numbers.t = "arr" THEN IntegerSum(numbers.a) ELSE 0

C17_SumArrayResult ==
  [][(pc = "handle" /\ IsRequest(line) /\ Req(line).method = "sum_array") =>
       /\ Appends
       /\ Len(Written) = 2
       /\ IsSuccess(Written[1])
       /\ Written[1].result = JInt(NumbersSum(line))]_vars

\* C18: a message whose id field is present with the value null is handled
\* exactly like a message without id, as a notification: one "Unknown
\* notification: {method}" log, or the shutdown for method "shutdown"; no
\* response with id null is ever written, also for a registry method.
HasNullId(l) == l.k = "object" /\ "id" \in DOMAIN l.f /\ l.f.id = Null

C18_NullIdIsNotification ==
  /\ [](\A i \in 1..Len(out) : IsResponse(out[i]) => out[i].id # Null)
  /\ [][(pc = "handle" /\ Decodes(line) /\ HasNullId(line)) =>
          /\ Appends
          /\ Len(Written) = 1
          /\ IF Req(line).method = "shutdown"
               THEN /\ IsLog(Written[1], Literal("Shutting down..."))
                    /\ status' = "shutdown"
               ELSE /\ IsLog(Written[1],
                             Format("Unknown notification: ", Req(line).method))
                    /\ status' = "running"
                    /\ pc' = "read"]_vars

C18_Witness ==
  /\ AfterTurn /\ pc = "read" /\ pos = 1
  /\ HasNullId(LastLine)
  /\ LastLine.f.method = JStr("add")
  /\ Len(out) = 2
  /\ IsLog(LastOut, Format("Unknown notification: ", "add"))

\* C19: a message with method "shutdown" that carries a non-null id is not
\* a shutdown: its turn writes exactly one error response (-32601, "Method
\* not found: shutdown", the same id) and no "Shutting down..." log, the
\* process keeps running, and the next line is handled as usual.
IsShutdownRequest(l) == IsRequest(l) /\ Req(l).method = "shutdown"

C19_ShutdownWithIdIsUnknownMethod ==
  /\ []((pc = "read" /\ pos = 2 /\ IsShutdownRequest(stdin[1])) =>
          /\ Len(out) >= 2
          /\ IsError(out[2])
          /\ SubSeq(out, 3, Len(out)) = TurnOutput(stdin[2]))
  /\ [][(pc = "handle" /\ IsShutdownRequest(line)) =>
          /\ Appends
          /\ Len(Written) = 1
          /\ IsError(Written[1])
          /\ Written[1].id = Req(line).id.v
          /\ Written[1].error.code = -32601
          /\ Written[1].error.message = Format("Method not found: ", "shutdown")
          /\ pc' = "read"
          /\ status' = "running"]_vars

C19_Witness ==
  /\ pc = "read" /\ pos = 2 /\ status = "running"
  /\ IsShutdownRequest(stdin[1])
  /\ IsRegistryRequest(stdin[2])
  /\ Len(out) = 4
  /\ IsError(out[2]) /\ IsSuccess(out[3])

\* C20 (as stated): for every finite input the process eventually
\* terminates, and at termination (every handler call having returned) every
\* input line before the first shutdown notification has been handled, the
\* shutdown notification too, and no line after it.
ShutdownAt(i) == stdin[i] # ReadErr /\ IsShutdown(stdin[i])
HasShutdown == \E i \in 1..Len(stdin) : ShutdownAt(i)
FirstShutdown ==
  CHOOSE i \in 1..Len(stdin) : ShutdownAt(i) /\ \A j \in 1..(i - 1) : ~ShutdownAt(j)

IsInputLine(i) == stdin[i] # ReadErr
HandledLines == { i \in 1..Handled : IsInputLine(i) }
LinesUpToShutdown ==
  { i \in 1..Len(stdin) : IsInputLine(i) /\ (HasShutdown => i <= FirstShutdown) }

Terminated == pc = "done"
HandlersReturned == status # "panic"

C20_HandledUpToShutdown ==
  (Terminated /\ HandlersReturned) => HandledLines = LinesUpToShutdown

\* C20 (amended): for every finite input the process eventually terminates,
\* and at termination (every handler call having returned) exactly the input
\* lines up to the first shutdown notification or failed read have been
\* handled, their outputs written in order: every line before it, the
\* shutdown notification itself if that is what comes first, and no line
\* after it.
StopAt(i) == stdin[i] = ReadErr \/ IsShutdown(stdin[i])
HasStop == \E i \in 1..Len(stdin) : StopAt(i)
FirstStop ==
  CHOOSE i \in 1..Len(stdin) : StopAt(i) /\ \A j \in 1..(i - 1) : ~StopAt(j)
LinesUpToStop ==
  { i \in 1..Len(stdin) : IsInputLine(i) /\ (HasStop => i <= FirstStop) }

C20_TerminatesHandledUpToStop ==
  /\ <>Terminated
  /\ []((Terminated /\ HandlersReturned) =>
          /\ HandledLines = LinesUpToStop
          /\ Len(out) >= 1
          /\ Tail(out) = TurnsOutput(Handled))

C20_Witness ==
  /\ Terminated /\ status = "shutdown"
  /\ pos = 2 /\ Len(stdin) = 2
  /\ IsRequest(stdin[1])
  /\ ShutdownAt(2)
  /\ Len(out) >= 3
  /\ IsLog(LastOut, Literal("Shutting down..."))

====
